---- MODULE Spec2Model ----
(***************************************************************************)
(* A model of stutil: the stdout/stderr redirecting stream of logger.py    *)
(* (RedirectStdStream, the module-level singleton _stream, the scoped      *)
(* wrapper redirect_stds) and its get_logger, the save_exec_status         *)
(* decorator of misc.py, send_notify of notify.py, the Timer of timer.py   *)
(* and the redirect resolution and download_url of download.py.            *)
(*                                                                         *)
(* Text is a sequence of code points, bytes a sequence of byte values.     *)
(* An object reference (a value sys.stdout can hold) is a record           *)
(* [k, id]: the two original process streams, or a RedirectStdStream       *)
(* instance named by its construction index.                               *)
(***************************************************************************)
EXTENDS Integers, Sequences, FiniteSets

\* ------------------------------------------------------------------ bounds
MaxInst == 2      \* RedirectStdStream objects constructed in one run
MaxOut == 2       \* chunks the original stdout receives in one run
MaxScopes == 2    \* nesting depth of "with redirect_stds(...)"
MaxCalls == 3     \* calls of a save_exec_status-wrapped function in one run
MaxNotify == 2    \* calls of send_notify in one run
MaxLogCalls == 2  \* calls of get_logger in one run
MaxTime == 3      \* readings the performance counter advances through in one run
MaxSteps == 2     \* calls of Timer.step in one run
MaxHops == 2      \* the largest max_hops a caller passes

\* --------------------------------------------------------------- constants
None == 0         \* _stream = None

OrigStdout == [k |-> "orig_stdout", id |-> 0]
OrigStderr == [k |-> "orig_stderr", id |-> 0]
Ref(i) == [k |-> "inst", id |-> i]

NoName == "None"                      \* filename=None
GoodName == "log.log"                 \* a path that can be opened for writing
BadName == "/nonexistent/log.log"     \* a path whose open() raises OSError
FileNames == {NoName, GoodName, BadName}
FileModes == {"a", "w"}

\* self.file = None
NoFile == [open |-> FALSE, name |-> NoName, mode |-> "a", buf |-> <<>>]

Str(s) == [bytes |-> FALSE, data |-> s]
Bytes(b) == [bytes |-> TRUE, data |-> b]
\* "", "a", b"", b"\xc3\xa9" (one two-byte character), b"\xff" (invalid UTF-8)
Texts == {Str(<<>>), Str(<<97>>), Bytes(<<>>), Bytes(<<195, 169>>), Bytes(<<255>>)}

Fails == BOOLEAN   \* whether the operating system fails the next flush (OSError)

VARIABLES
    sys_stdout,   \* sys.stdout
    sys_stderr,   \* sys.stderr
    stream,       \* logger._stream: None or the index of the singleton instance
    inst,         \* the RedirectStdStream objects constructed so far
    disk,         \* contents of the log file on disk
    out,          \* chunks the original stdout has received
    ev,           \* calls the last operation made on files and on the original stdout
    ret,          \* the last operation: its name, arguments and outcome
    scopes,       \* number of redirect_stds generators suspended at their yield
    sess,         \* the singleton's session: the chunks written to it since its open
    closed,       \* the instances whose close() has returned
    clock,        \* hours since the start of the run
    statusFile,   \* records in the file of save_exec_status
    calls,        \* wrapped calls made so far
    execRet,      \* the last wrapped call: its arguments and outcome
    notify,       \* notify.py: the module's token, the posts made, the last send_notify
    loggers,      \* the logging module's registry: the handlers of each named logger
    timer,        \* a Timer object, the performance counter and the last Timer call
    dl            \* download.py: the web as the client sees it and the last download call

loggerVars == <<sys_stdout, sys_stderr, stream, inst, disk, out, ev, ret, scopes, sess, closed>>
execVars == <<clock, statusFile, calls, execRet>>
utilVars == <<notify, loggers, timer, dl>>
vars == <<sys_stdout, sys_stderr, stream, inst, disk, out, ev, ret, scopes, sess, closed,
          clock, statusFile, calls, execRet, notify, loggers, timer, dl>>

\* ------------------------------------------------------------ the world
\* The state the logger's functions read and write, threaded through them;
\* exc is the exception in flight ("none" when there is none), val the value
\* returned.
World ==
    [sys_stdout |-> sys_stdout, sys_stderr |-> sys_stderr, stream |-> stream,
     inst |-> inst, disk |-> disk, out |-> out, ev |-> <<>>, sess |-> sess,
     closed |-> closed, exc |-> "none", val |-> None]

Raise(w, e) == [w EXCEPT !.exc = e]
Event(w, e, i) == [w EXCEPT !.ev = Append(@, [e |-> e, i |-> i])]
\* the world a call leaves: the exception it raised, or the value it returned
Returned(w, exc, val) == [w EXCEPT !.exc = exc, !.val = IF exc = "none" THEN val ELSE None]

\* bytes.decode(): UTF-8, one- and two-byte sequences
RECURSIVE decode(_)
decode(b) ==
    IF b = <<>> THEN [ok |-> TRUE, s |-> <<>>]
    ELSE IF b[1] < 128
    THEN LET r == decode(Tail(b)) IN [ok |-> r.ok, s |-> <<b[1]>> \o r.s]
    ELSE IF b[1] >= 194 /\ b[1] <= 223 /\ Len(b) >= 2 /\ b[2] >= 128 /\ b[2] <= 191
    THEN LET r == decode(SubSeq(b, 3, Len(b)))
         IN [ok |-> r.ok, s |-> <<(b[1] - 192) * 64 + (b[2] - 128)>> \o r.s]
    ELSE [ok |-> FALSE, s |-> <<>>]

\* ------------------------------------------------------------ file objects
\* open(file_name, file_mode): "w" truncates, "a" keeps the contents
FileOpen(w, name, mode) ==
    IF name = BadName THEN Raise(Event(w, "open", 0), "OSError")
    ELSE Event([w EXCEPT !.disk = IF mode = "w" THEN <<>> ELSE @], "open", 0)

\* the buffer written out. The file has one open handle at a time (see
\* Free), so the handle's position is the end of the file in both modes.
Stored(content, f) == content \o f.buf

\* self.file.write(text): into the handle's buffer
FileWrite(w, i, s) ==
    Event([w EXCEPT !.inst[i].file.buf = @ \o s], "file.write", i)

\* self.file.flush()
FileFlush(w, i, fail) ==
    IF fail THEN Raise(w, "OSError")
    ELSE LET f == w.inst[i].file
         IN Event([w EXCEPT !.disk = Stored(@, f),
                            !.inst[i].file.buf = <<>>], "file.flush", i)

\* self.file.close(): writes out what is buffered
FileClose(w, i) ==
    LET f == w.inst[i].file
    IN Event([w EXCEPT !.disk = Stored(@, f),
                       !.inst[i].file.buf = <<>>], "file.close", i)

\* ------------------------------------------------------- RedirectStdStream
RECURSIVE flush(_, _, _)
\* self.stdout.flush(): the captured target is the original stdout or an
\* older RedirectStdStream
StdoutFlush(w, t, fail) ==
    IF t.k = "inst" THEN flush(w, t.id, fail)
    ELSE IF fail THEN Raise(w, "OSError")
    ELSE Event(w, "stdout.flush", 0)

flush(w, i, fail) ==
    LET w1 == IF w.inst[i].file.open THEN FileFlush(w, i, fail) ELSE w
    IN IF w1.exc # "none" THEN w1 ELSE StdoutFlush(w1, w.inst[i].stdout, fail)

RECURSIVE write(_, _, _, _)
\* self.stdout.write(text)
StdoutWrite(w, t, s, fail) ==
    IF t.k = "inst" THEN write(w, t.id, Str(s), fail)
    ELSE Event([w EXCEPT !.out = Append(@, s)], "stdout.write", 0)

\* WriteBody with the file forgotten
WriteBody_skipfile(w, i, s, fail) ==
    LET w2 == StdoutWrite(w, w.inst[i].stdout, s, fail)
    IN IF w2.exc # "none" THEN w2
       ELSE IF w.inst[i].should_flush THEN flush(w2, i, fail)
       ELSE w2

\* WriteBody forwarding to the captured stdout before writing the file
WriteBody_forward_first(w, i, s, fail) ==
    LET w1 == StdoutWrite(w, w.inst[i].stdout, s, fail)
        w2 == IF w1.exc = "none" /\ w.inst[i].file.open THEN FileWrite(w1, i, s) ELSE w1
    IN IF w2.exc # "none" THEN w2
       ELSE IF w.inst[i].should_flush THEN flush(w2, i, fail)
       ELSE w2

\* the file write, the forward and the flush of a non-empty write
WriteBody(w, i, s, fail) ==
    LET w1 == IF w.inst[i].file.open THEN FileWrite(w, i, s) ELSE w
        w2 == StdoutWrite(w1, w.inst[i].stdout, s, fail)
    IN IF w2.exc # "none" THEN w2
       ELSE IF w.inst[i].should_flush THEN flush(w2, i, fail)
       ELSE w2

\* write without the early return on zero-length text
write_noguard(w, i, text, fail) ==
    LET d == IF text.bytes THEN decode(text.data) ELSE [ok |-> TRUE, s |-> text.data]
    IN IF ~d.ok THEN Raise(w, "UnicodeDecodeError")
       ELSE WriteBody(w, i, d.s, fail)

write(w, i, text, fail) ==
    LET d == IF text.bytes THEN decode(text.data) ELSE [ok |-> TRUE, s |-> text.data]
    IN IF ~d.ok THEN Raise(w, "UnicodeDecodeError")
       ELSE IF Len(d.s) = 0 THEN w
       ELSE WriteBody(IF i = w.stream THEN [w EXCEPT !.sess.chunks = Append(@, d.s)] ELSE w,
                      i, d.s, fail)

\* Restore without the "is self" tests
Restore_always(w, i) ==
    [w EXCEPT !.sys_stdout = w.inst[i].stdout, !.sys_stderr = w.inst[i].stderr]

\* Restore putting back the process's original streams, not the captured ones
Restore_original(w, i) ==
    LET w1 == IF w.sys_stdout = Ref(i) THEN [w EXCEPT !.sys_stdout = OrigStdout] ELSE w
    IN IF w1.sys_stderr = Ref(i) THEN [w1 EXCEPT !.sys_stderr = OrigStderr] ELSE w1

\* the restoration step of close
Restore(w, i) ==
    LET w1 == IF w.sys_stdout = Ref(i) THEN [w EXCEPT !.sys_stdout = w.inst[i].stdout] ELSE w
    IN IF w1.sys_stderr = Ref(i) THEN [w1 EXCEPT !.sys_stderr = w.inst[i].stderr] ELSE w1

\* CloseFile with the reference kept
CloseFile_keepref(w, i) ==
    IF w.inst[i].file.open THEN FileClose(w, i) ELSE w

\* the file step of close
CloseFile(w, i) ==
    IF w.inst[i].file.open THEN [FileClose(w, i) EXCEPT !.inst[i].file = NoFile] ELSE w

\* close restoring the streams and closing the file before it flushes
close_flush_last(w, i, fail) ==
    LET w1 == flush(CloseFile(Restore(w, i), i), i, fail)
    IN IF w1.exc # "none" THEN w1 ELSE [w1 EXCEPT !.closed = @ \cup {i}]

close(w, i, fail) ==
    LET w1 == flush(w, i, fail)
    IN IF w1.exc # "none" THEN w1
       ELSE [CloseFile(Restore(w1, i), i) EXCEPT !.closed = @ \cup {i}]

\* Install with sys.stderr left alone
Install_stdout_only(w, f, should_flush) ==
    LET i == Len(w.inst) + 1
    IN [w EXCEPT !.inst = Append(@, [file |-> f, should_flush |-> should_flush,
                                     stdout |-> w.sys_stdout, stderr |-> w.sys_stderr]),
                 !.sys_stdout = Ref(i), !.val = i]

\* the capture and the installation of __init__, f the file attribute
Install(w, f, should_flush) ==
    LET i == Len(w.inst) + 1
    IN [w EXCEPT !.inst = Append(@, [file |-> f, should_flush |-> should_flush,
                                     stdout |-> w.sys_stdout, stderr |-> w.sys_stderr]),
                 !.sys_stdout = Ref(i), !.sys_stderr = Ref(i), !.val = i]

\* Construct with the streams captured and installed before the file is opened
Construct_install_first(w, file_name, file_mode, should_flush) ==
    LET f == IF file_name # NoName
             THEN [open |-> TRUE, name |-> file_name, mode |-> file_mode, buf |-> <<>>]
             ELSE NoFile
        w1 == Install(w, f, should_flush)
    IN IF file_name # NoName THEN FileOpen(w1, file_name, file_mode) ELSE w1

\* RedirectStdStream(file_name, file_mode, should_flush)
Construct(w, file_name, file_mode, should_flush) ==
    LET w1 == IF file_name # NoName THEN FileOpen(w, file_name, file_mode) ELSE w
        f == IF file_name # NoName
             THEN [open |-> TRUE, name |-> file_name, mode |-> file_mode, buf |-> <<>>]
             ELSE NoFile
    IN IF w1.exc # "none" THEN w1 ELSE Install(w1, f, should_flush)

\* ------------------------------------------------------ module functions
\* open_redirect_std_stream without the "is None" test
open_always(w, filename, mode) ==
    LET w1 == Construct(w, filename, mode, TRUE)
    IN IF w1.exc # "none" THEN w1
       ELSE [w1 EXCEPT !.stream = w1.val,
                       !.sess = [out0 |-> Len(w.out), chunks |-> <<>>]]

open_redirect_std_stream(w, filename, mode) ==
    IF w.stream = None
    THEN LET w1 == Construct(w, filename, mode, TRUE)
         IN IF w1.exc # "none" THEN w1
            ELSE [w1 EXCEPT !.stream = w1.val,
                            !.sess = [out0 |-> Len(w.out), chunks |-> <<>>]]
    ELSE [w EXCEPT !.val = w.stream]

\* close_redirect_std_stream with the slot left as it is
close_keep_slot(w, fail) ==
    IF w.stream # None THEN close(w, w.stream, fail) ELSE w

close_redirect_std_stream(w, fail) ==
    LET w1 == IF w.stream # None THEN close(w, w.stream, fail) ELSE w
    IN IF w1.exc # "none" THEN w1 ELSE [w1 EXCEPT !.stream = None]

\* print(...): sys.stdout.write(text), or sys.stderr.write(text) for a
\* warning or a traceback. The original streams take str only.
SysWrite(w, which, text, fail) ==
    LET t == IF which = "stdout" THEN w.sys_stdout ELSE w.sys_stderr
    IN IF t.k = "inst" THEN write(w, t.id, text, fail)
       ELSE IF text.bytes THEN Raise(w, "TypeError")
       ELSE IF t = OrigStdout /\ Len(text.data) > 0
       THEN Event([w EXCEPT !.out = Append(@, text.data)], "stdout.write", 0)
       ELSE Event(w, t.k \o ".write", 0)

\* redirect_stds up to its yield
redirect_stds_enter(w, filename, mode) ==
    [open_redirect_std_stream(w, filename, mode) EXCEPT !.val = None]

\* redirect_stds from its yield on: the generator is resumed when the body
\* of the with statement finished, and the body's exception is thrown into
\* it at the yield when the body raised
redirect_stds_exit(w, raised, fail) ==
    IF raised THEN Raise(w, "BodyError") ELSE close_redirect_std_stream(w, fail)

\* ------------------------------------------------------- save_exec_status
PyStr(s) == [t |-> "str", v |-> s]
Ok(v) == [exc |-> "none", val |-> v]
Err(e) == [exc |-> e, val |-> 0]

\* datetime.datetime.now(tz).strftime(format): the hour of the day as two
\* digits, in JST (UTC+9) or in the local zone (UTC)
get_now_string(now, use_jst) ==
    LET h == (now + (IF use_jst THEN 9 ELSE 0)) % 24
    IN PyStr(<<48 + (h \div 10), 48 + (h % 10)>>)

\* end_time - start_time: defined on datetime objects, not on str
Sub(a, b) ==
    IF a.t = "datetime" /\ b.t = "datetime"
    THEN Ok([t |-> "timedelta", v |-> a.v - b.v])
    ELSE Err("TypeError")

\* x.strftime(date_format): a method of datetime objects, not of str
Strftime(x) ==
    IF x.t = "datetime" THEN Ok(get_now_string(x.v, FALSE).v) ELSE Err("AttributeError")

\* _save(message): open(path, mode) and write
Save(e, mode, message) ==
    [e EXCEPT !.statusFile = IF mode = "w" THEN <<message>> ELSE Append(@, message)]

\* the message formatted and saved; status is FINISHED or CRASHED
Report(e, mode, status, start_time, end_time, error) ==
    LET duration == Sub(end_time, start_time)
        s == Strftime(start_time)
        t == Strftime(end_time)
    IN IF duration.exc # "none" THEN [e EXCEPT !.exc = duration.exc]
       ELSE IF s.exc # "none" THEN [e EXCEPT !.exc = s.exc]
       ELSE IF t.exc # "none" THEN [e EXCEPT !.exc = t.exc]
       ELSE Save(e, mode, [status |-> status, start_time |-> s.val, end_time |-> t.val,
                           duration |-> duration.val.v, error |-> error])

\* the except clause of inner: the exception ex of the try block is reported
\* and raised again
Handler(e, mode, use_jst, start_time, ex) ==
    LET r == Report(e, mode, "CRASHED", start_time, get_now_string(e.clock, use_jst), ex)
    IN IF r.exc # "none" THEN r ELSE [r EXCEPT !.exc = ex]

\* inner(*args, **kwargs): func runs for f.d hours, then returns f.v or
\* raises f.x
inner(e, mode, use_jst, f) ==
    LET start_time == get_now_string(e.clock, use_jst)
        e1 == [e EXCEPT !.clock = @ + f.d]
        r == Report(e1, mode, "FINISHED", start_time, get_now_string(e1.clock, use_jst), "none")
    IN IF f.raises THEN Handler(e1, mode, use_jst, start_time, f.x)
       ELSE IF r.exc # "none" THEN Handler(e1, mode, use_jst, start_time, r.exc)
       ELSE [r EXCEPT !.val = f.v]

\* ------------------------------------------------------------- actions
FileOf(i) == IF i = None THEN NoFile ELSE inst[i].file

Ret(op, w, self, name, mode, text) ==
    [op |-> op, exc |-> w.exc, val |-> w.val, pre |-> stream, self |-> self,
     again |-> self \in closed, name |-> name, mode |-> mode, text |-> text]

Commit(w, r) ==
    /\ sys_stdout' = w.sys_stdout
    /\ sys_stderr' = w.sys_stderr
    /\ stream' = w.stream
    /\ inst' = w.inst
    /\ disk' = w.disk
    /\ out' = w.out
    /\ ev' = w.ev
    /\ sess' = w.sess
    /\ closed' = w.closed
    /\ ret' = r

\* The environment constructs at most MaxInst objects, and opens the log file
\* only while no other object holds it open.
CanConstruct == Len(inst) < MaxInst
Free(name) == name = GoodName => \A j \in 1..Len(inst) : ~inst[j].file.open

\* open_redirect_std_stream(filename, mode)
Open ==
    \E filename \in FileNames, mode \in FileModes :
        /\ stream = None => CanConstruct /\ Free(filename)
        /\ Commit(open_redirect_std_stream(World, filename, mode),
                  Ret("open_redirect_std_stream",
                      open_redirect_std_stream(World, filename, mode),
                      0, filename, mode, Str(<<>>)))
        /\ UNCHANGED <<scopes, clock, statusFile, calls, execRet, utilVars>>

\* close_redirect_std_stream()
CloseRedirect ==
    \E fail \in Fails :
        /\ Commit(close_redirect_std_stream(World, fail),
                  Ret("close_redirect_std_stream", close_redirect_std_stream(World, fail),
                      0, FileOf(stream).name, FileOf(stream).mode, Str(<<>>)))
        /\ UNCHANGED <<scopes, clock, statusFile, calls, execRet, utilVars>>

\* RedirectStdStream(file_name, file_mode, should_flush), constructed directly
New ==
    \E file_name \in FileNames, file_mode \in FileModes, should_flush \in BOOLEAN :
        /\ CanConstruct /\ Free(file_name)
        /\ Commit(Construct(World, file_name, file_mode, should_flush),
                  Ret("RedirectStdStream", Construct(World, file_name, file_mode, should_flush),
                      0, file_name, file_mode, Str(<<>>)))
        /\ UNCHANGED <<scopes, clock, statusFile, calls, execRet, utilVars>>

\* instance.write(text) on an object the program holds
Write ==
    \E i \in 1..Len(inst), text \in Texts, fail \in Fails :
        /\ Len(out) < MaxOut
        /\ Commit(write(World, i, text, fail),
                  Ret("write", write(World, i, text, fail), i, NoName, "a", text))
        /\ UNCHANGED <<scopes, clock, statusFile, calls, execRet, utilVars>>

\* sys.stdout.write(text) / sys.stderr.write(text)
Printing ==
    \E which \in {"stdout", "stderr"}, text \in Texts, fail \in Fails :
        /\ Len(out) < MaxOut
        /\ Commit(SysWrite(World, which, text, fail),
                  Ret("print", SysWrite(World, which, text, fail), 0, which, "a", text))
        /\ UNCHANGED <<scopes, clock, statusFile, calls, execRet, utilVars>>

\* print(...) of a str: sys.stdout.write(text)
PrintStdout ==
    \E text \in {Str(<<>>), Str(<<97>>)}, fail \in Fails :
        /\ Len(out) < MaxOut
        /\ Commit(SysWrite(World, "stdout", text, fail),
                  Ret("print", SysWrite(World, "stdout", text, fail), 0, "stdout", "a", text))
        /\ UNCHANGED <<scopes, clock, statusFile, calls, execRet, utilVars>>

\* instance.flush()
Flush ==
    \E i \in 1..Len(inst), fail \in Fails :
        /\ Commit(flush(World, i, fail),
                  Ret("flush", flush(World, i, fail), i, NoName, "a", Str(<<>>)))
        /\ UNCHANGED <<scopes, clock, statusFile, calls, execRet, utilVars>>

\* instance.close()
Close ==
    \E i \in 1..Len(inst), fail \in Fails :
        /\ Commit(close(World, i, fail),
                  Ret("close", close(World, i, fail), i, NoName, "a", Str(<<>>)))
        /\ UNCHANGED <<scopes, clock, statusFile, calls, execRet, utilVars>>

\* with redirect_stds(filename, mode): entered
Enter ==
    \E filename \in FileNames, mode \in FileModes :
        /\ scopes < MaxScopes
        /\ stream = None => CanConstruct /\ Free(filename)
        /\ Commit(redirect_stds_enter(World, filename, mode),
                  Ret("redirect_stds.enter", redirect_stds_enter(World, filename, mode),
                      0, filename, mode, Str(<<>>)))
        /\ scopes' = IF redirect_stds_enter(World, filename, mode).exc = "none"
                     THEN scopes + 1 ELSE scopes
        /\ UNCHANGED <<clock, statusFile, calls, execRet, utilVars>>

\* the with statement left: its body finished, or raised
Exit ==
    \E raised \in BOOLEAN, fail \in Fails :
        /\ scopes > 0
        /\ Commit(redirect_stds_exit(World, raised, fail),
                  Ret("redirect_stds.exit", redirect_stds_exit(World, raised, fail),
                      0, FileOf(stream).name, FileOf(stream).mode, Str(<<>>)))
        /\ scopes' = scopes - 1
        /\ UNCHANGED <<clock, statusFile, calls, execRet, utilVars>>

\* a call of a function wrapped by save_exec_status(path, mode, use_jst)
Funcs ==
    [raises : {FALSE}, v : {0, 1}, x : {"none"}, d : {0, 1}]
    \cup [raises : {TRUE}, v : {0}, x : {"ValueError", "KeyError"}, d : {0, 1}]

Call ==
    \E mode \in FileModes, use_jst \in BOOLEAN, f \in Funcs :
        /\ calls < MaxCalls
        /\ LET e == inner([clock |-> clock, statusFile |-> statusFile,
                           exc |-> "none", val |-> 0], mode, use_jst, f)
           IN /\ clock' = e.clock
              /\ statusFile' = e.statusFile
              /\ execRet' = [op |-> "inner", mode |-> mode, use_jst |-> use_jst, f |-> f,
                             exc |-> e.exc, val |-> e.val, pre |-> statusFile]
        /\ calls' = calls + 1
        /\ UNCHANGED <<loggerVars, utilVars>>

LoggerInit ==
    /\ sys_stdout = OrigStdout
    /\ sys_stderr = OrigStderr
    /\ stream = None
    /\ inst = <<>>
    /\ disk \in {<<>>, <<120>>}
    /\ out = <<>>
    /\ ev = <<>>
    /\ ret = [op |-> "import", exc |-> "none", val |-> None, pre |-> None, self |-> 0,
              again |-> FALSE, name |-> NoName, mode |-> "a", text |-> Str(<<>>)]
    /\ scopes = 0
    /\ sess = [out0 |-> 0, chunks |-> <<>>]
    /\ closed = {}

ExecInit ==
    /\ clock = 0
    /\ statusFile \in {<<>>, <<[status |-> "FINISHED", start_time |-> <<48, 48>>,
                               end_time |-> <<48, 49>>, duration |-> 1, error |-> "none"]>>}
    /\ calls = 0
    /\ execRet = [op |-> "import", mode |-> "a", use_jst |-> TRUE,
                  f |-> [raises |-> FALSE, v |-> 0, x |-> "none", d |-> 0],
                  exc |-> "none", val |-> 0, pre |-> <<>>]

\* ------------------------------------------------------------- notify.py
NoToken == "None"
NoImage == "None"
GoodImage == "img.png"
MissingImage == "missing.png"
Tokens == {NoToken, "", "tok"}
Messages == {"", "hi"}
Images == {NoImage, GoodImage, MissingImage}
\* what the network does with a post: a response with a status, or no connection
Nets == {"200", "401", "ConnectionError"}
Unbound == "<unbound>"
NoResponse == [k |-> "None", status |-> "None", n |-> 0]
NoRequest == [url |-> "None", Authorization |-> "None", message |-> "", imageFile |-> NoImage]
api_url == "https://notify-api.line.me/api/notify"

\* requests.post(api_url, headers=headers, data=data, files=files)
post(n, headers, data, files, net) ==
    LET req == [url |-> api_url, Authorization |-> headers.Authorization,
                message |-> data.message, imageFile |-> files.imageFile]
    IN  IF net = "ConnectionError"
        THEN [n EXCEPT !.exc = "ConnectionError"]
        ELSE [n EXCEPT !.posts = @ + 1, !.last = req,
                       !.val = [k |-> "Response", status |-> net, n |-> n.posts + 1]]

\* reading a local variable of the running function
Load(locals, name) == locals[name]

\* the text of the warning, as warnings.formatwarning lays it out:
\* notify.py:30: UserWarning: A valid token was not provided. Set
\* "LINE_NOTIFY_TOKEN" environment or `token` argument.\n  warnings.warn(\n
WarningText ==
    <<110, 111, 116, 105, 102, 121, 46, 112, 121, 58, 51, 48, 58, 32, 85,
      115, 101, 114, 87, 97, 114, 110, 105, 110, 103, 58, 32, 65, 32, 118,
      97, 108, 105, 100, 32, 116, 111, 107, 101, 110, 32, 119, 97, 115, 32,
      110, 111, 116, 32, 112, 114, 111, 118, 105, 100, 101, 100, 46, 32,
      83, 101, 116, 32, 34, 76, 73, 78, 69, 95, 78, 79, 84, 73, 70, 89, 95,
      84, 79, 75, 69, 78, 34, 32, 101, 110, 118, 105, 114, 111, 110, 109,
      101, 110, 116, 32, 111, 114, 32, 96, 116, 111, 107, 101, 110, 96, 32,
      97, 114, 103, 117, 109, 101, 110, 116, 46, 10, 32, 32, 119, 97, 114,
      110, 105, 110, 103, 115, 46, 119, 97, 114, 110, 40, 10>>

\* warnings.warn(...): a warning is shown the first time its location raises
\* it in the process and recorded in the module's registry
warn(n) == [n EXCEPT !.warned = TRUE, !.shown = ~n.registry, !.registry = TRUE]

\* warnings.showwarning: the text is written to sys.stderr in one write; an
\* OSError of that write is swallowed
showwarning(w, fail) ==
    LET w1 == SysWrite(w, "stderr", Str(WarningText), fail)
    IN  IF w1.exc = "OSError" THEN [w1 EXCEPT !.exc = "none"] ELSE w1

send_notify(n0, message, image_file, token, net) ==
    LET n == [n0 EXCEPT !.exc = "none", !.val = NoResponse, !.warned = FALSE,
                        !.shown = FALSE]
        token1 == IF token \in {NoToken, ""} THEN n.LINE_NOTIFY_TOKEN ELSE token
        n1 == IF token1 = NoToken THEN warn(n) ELSE n
        headers == [Authorization |-> "Bearer " \o token1]
        data == [message |-> message]
        locals == [files |-> Unbound]
    IN  IF image_file # NoImage
        THEN IF image_file = MissingImage
             THEN [n1 EXCEPT !.exc = "FileNotFoundError"]
             ELSE LET locals1 == [locals EXCEPT !.files = [imageFile |-> image_file]]
                  IN  post(n1, headers, data, Load(locals1, "files"), net)
        ELSE IF Load(locals, "files") = Unbound
             THEN [n1 EXCEPT !.exc = "UnboundLocalError"]
             ELSE post(n1, headers, data, Load(locals, "files"), net)

\* send_notify(message, image_file, token); the warning it shows goes through
\* whatever sys.stderr is
SendNotify ==
    \E message \in Messages, image_file \in Images, token \in Tokens, net \in Nets,
       fail \in Fails :
        /\ notify.calls < MaxNotify
        /\ LET n == send_notify(notify.m, message, image_file, token, net)
               w == Returned(IF n.shown THEN showwarning(World, fail) ELSE World,
                             n.exc, n.val)
           IN  /\ notify' = [m |-> n, calls |-> notify.calls + 1,
                             ret |-> [op |-> "send_notify", message |-> message,
                                      image_file |-> image_file, token |-> token,
                                      net |-> net, posted |-> n.posts - notify.m.posts]]
               /\ Commit(w, Ret("send_notify", w, 0, NoName, "a", Str(<<>>)))
        /\ UNCHANGED <<scopes, execVars, loggers, timer, dl>>

NotifyModule(env) ==
    [m |-> [LINE_NOTIFY_TOKEN |-> env, posts |-> 0, last |-> NoRequest, exc |-> "none",
            val |-> NoResponse, warned |-> FALSE, shown |-> FALSE, registry |-> FALSE],
     calls |-> 0,
     ret |-> [op |-> "import", message |-> "", image_file |-> NoImage, token |-> NoToken,
              net |-> "200", posted |-> 0]]


\* ---------------------------------------------------- logger.py: get_logger
\* logging.getLogger(name) hands out one Logger object per name, so a logger
\* is identified by its name; a handler is identified by its construction
\* index, a user-made auxiliary handler by a negative number.
LoggerNames == {"a", "b"}
AuxHandler(i) == [k |-> "aux", id |-> 0 - i, filename |-> NoName, mode |-> "a",
                  level |-> "NOTSET", formatter |-> FALSE]
\* auxiliary_handlers: None and the empty list are the same to "if auxiliary_handlers:"
AuxLists == {<<>>, <<AuxHandler(1)>>, <<AuxHandler(1), AuxHandler(2)>>,
             <<AuxHandler(1), AuxHandler(1)>>}
NewLogger == [handlers |-> <<>>, level |-> "NOTSET"]
Range(seq) == {seq[i] : i \in 1..Len(seq)}

\* logging.Logger.addHandler: a handler the logger already has is not added again
addHandler(L, name, h) ==
    IF h \in Range(L.reg[name].handlers) THEN L
    ELSE [L EXCEPT !.reg[name].handlers = Append(@, h)]

\* for handler in auxiliary_handlers: logger.addHandler(handler)
RECURSIVE addHandlers(_, _, _)
addHandlers(L, name, hs) ==
    IF hs = <<>> THEN L ELSE addHandlers(addHandler(L, name, Head(hs)), name, Tail(hs))

\* the body of get_logger below its early return; logging.FileHandler opens
\* its file when it is constructed. The result is the logging module and
\* the world after it.
Configure(L, w, name, filename, mode, auxiliary_handlers) ==
    LET L1 == [L EXCEPT !.reg[name].level = "DEBUG", !.made = @ + 1]
        stream_handler == [k |-> "stream", id |-> L1.made, filename |-> NoName,
                           mode |-> "a", level |-> "DEBUG", formatter |-> TRUE]
        L2 == addHandler(L1, name, stream_handler)
        w1 == IF filename = NoName THEN w ELSE FileOpen(w, filename, mode)
        L3 == [L2 EXCEPT !.made = @ + 1, !.opened = @ + 1]
        file_handler == [k |-> "file", id |-> L3.made, filename |-> filename,
                         mode |-> mode, level |-> "DEBUG", formatter |-> TRUE]
        L4 == IF filename = NoName THEN L2
              ELSE IF w1.exc # "none" THEN [L2 EXCEPT !.exc = "FileNotFoundError"]
              ELSE addHandler(L3, name, file_handler)
    IN  IF L4.exc # "none" THEN [L |-> L4, w |-> Raise(w1, L4.exc)]
        ELSE [L |-> [addHandlers(L4, name, auxiliary_handlers) EXCEPT !.val = name],
              w |-> w1]

get_logger_noguard(L0, w, name, filename, mode, auxiliary_handlers) ==
    Configure([L0 EXCEPT !.exc = "none", !.val = "None"], w, name, filename, mode,
              auxiliary_handlers)

get_logger(L0, w, name, filename, mode, auxiliary_handlers) ==
    LET L == [L0 EXCEPT !.exc = "none", !.val = "None"]
    IN  IF Len(L.reg[name].handlers) > 0
        THEN [L |-> [L EXCEPT !.val = name], w |-> w]
        ELSE Configure(L, w, name, filename, mode, auxiliary_handlers)

NoFirst == [called |-> FALSE, filename |-> NoName, mode |-> "a", aux |-> <<>>,
            exc |-> "none", handlers |-> <<>>]

GetLogger ==
    \E name \in LoggerNames, filename \in FileNames, mode \in FileModes,
       auxiliary_handlers \in AuxLists :
        /\ loggers.calls < MaxLogCalls
        /\ LET r == get_logger(loggers.L, World, name, filename, mode, auxiliary_handlers)
               L == r.L
               w == Returned(r.w, L.exc, L.val)
           IN  /\ loggers' =
                    [L |-> L, calls |-> loggers.calls + 1,
                     first |-> IF loggers.first[name].called THEN loggers.first
                               ELSE [loggers.first EXCEPT ![name] =
                                       [called |-> TRUE, filename |-> filename,
                                        mode |-> mode, aux |-> auxiliary_handlers,
                                        exc |-> L.exc,
                                        handlers |-> L.reg[name].handlers]],
                     ret |-> [op |-> "get_logger", name |-> name, filename |-> filename,
                              mode |-> mode, aux |-> auxiliary_handlers,
                              again |-> loggers.first[name].called]]
               /\ Commit(w, Ret("get_logger", w, 0, filename, mode, Str(<<>>)))
        /\ UNCHANGED <<scopes, execVars, notify, timer, dl>>

\* the logging module after import: no logger has a handler
LoggingModule ==
    [L |-> [reg |-> [n \in LoggerNames |-> NewLogger], made |-> 0, opened |-> 0,
            exc |-> "none", val |-> "None"],
     calls |-> 0,
     first |-> [n \in LoggerNames |-> NoFirst],
     ret |-> [op |-> "import", name |-> "a", filename |-> NoName, mode |-> "a",
              aux |-> <<>>, again |-> FALSE]]

\* --------------------------------------------------------------- timer.py
\* time.perf_counter() is timer.now, a whole number of ticks, never 0, so
\* that None is no reading of it.
\* Timer.reset
reset(t) == [t EXCEPT !._t_start = None, !._running = FALSE, !._total = 0, !._step = 0,
                      !.exc = "none"]

\* Timer._elapsed: a number minus None is a TypeError
_elapsed(t, now) ==
    IF t._t_start = None THEN [exc |-> "TypeError", v |-> 0]
    ELSE [exc |-> "none", v |-> now - t._t_start]

\* Timer.start
start(t, now) == [t EXCEPT !._t_start = now, !._running = TRUE, !.exc = "none"]

\* Timer.stop
stop(t, now) ==
    LET e == _elapsed(t, now)
    IN  IF e.exc # "none" THEN [t EXCEPT !.exc = e.exc]
        ELSE [t EXCEPT !._total = @ + e.v, !._t_start = None, !._running = FALSE,
                       !.exc = "none"]

\* Timer.pause
pause(t, now) ==
    IF t._running
    THEN [t EXCEPT !._total = @ + _elapsed(t, now).v, !._running = FALSE, !.exc = "none"]
    ELSE [t EXCEPT !.exc = "none"]

\* Timer.resume
resume(t, now) ==
    IF ~t._running THEN [t EXCEPT !._t_start = now, !._running = TRUE, !.exc = "none"]
    ELSE [t EXCEPT !.exc = "none"]

\* Timer.step
step(t) == [t EXCEPT !._step = @ + 1, !.exc = "none"]

\* The measure the timer is meant to take, kept beside it: whether the calls
\* made so far leave the timer running, the ticks of the interval that is
\* open and the ticks of the intervals that ended. A start begins a new
\* interval; a resume begins one only when none is open.
TimerGhost(g, op) ==
    CASE op = "reset" -> [running |-> FALSE, open |-> 0, ran |-> 0]
      [] op = "start" -> [g EXCEPT !.running = TRUE, !.open = 0]
      [] op = "resume" -> IF g.running THEN g ELSE [g EXCEPT !.running = TRUE, !.open = 0]
      [] op \in {"pause", "stop"} ->
            IF g.running THEN [running |-> FALSE, open |-> 0, ran |-> g.ran + g.open]
            ELSE g
      [] OTHER -> g

\* the Timer after call op left the object as t
Called(op, t) ==
    [timer EXCEPT !.t = t, !.op = op, !.prev = timer.op, !.g = TimerGhost(timer.g, op)]

TimerReset ==
    /\ timer' = Called("reset", reset(timer.t))
    /\ UNCHANGED <<loggerVars, execVars, notify, loggers, dl>>
TimerStart ==
    /\ timer' = Called("start", start(timer.t, timer.now))
    /\ UNCHANGED <<loggerVars, execVars, notify, loggers, dl>>
TimerStop ==
    /\ timer' = Called("stop", stop(timer.t, timer.now))
    /\ UNCHANGED <<loggerVars, execVars, notify, loggers, dl>>
TimerPause ==
    /\ timer' = Called("pause", pause(timer.t, timer.now))
    /\ UNCHANGED <<loggerVars, execVars, notify, loggers, dl>>
TimerResume ==
    /\ timer' = Called("resume", resume(timer.t, timer.now))
    /\ UNCHANGED <<loggerVars, execVars, notify, loggers, dl>>
TimerStep ==
    /\ timer.t._step < MaxSteps
    /\ timer' = Called("step", step(timer.t))
    /\ UNCHANGED <<loggerVars, execVars, notify, loggers, dl>>

\* time passes between two calls
Tick ==
    /\ timer.now <= MaxTime
    /\ timer' = [timer EXCEPT !.now = @ + 1,
                              !.g.open = IF timer.g.running THEN @ + 1 ELSE @]
    /\ UNCHANGED <<loggerVars, execVars, notify, loggers, dl>>

\* Timer(): __init__ calls reset
TimerObject ==
    [t |-> [_t_start |-> None, _running |-> FALSE, _total |-> 0, _step |-> 0,
            exc |-> "none"],
     now |-> 1, op |-> "reset", prev |-> "__init__",
     g |-> [running |-> FALSE, open |-> 0, ran |-> 0]]

\* ------------------------------------------------------------ download.py
\* A URL is its scheme, the labels of its host and the segments of its path
\* (urlparse); NoUrl is None, and UrlError stands for a request that fails.
Url(scheme, netloc, path) == [scheme |-> scheme, netloc |-> netloc, path |-> path]
NoUrl == Url("None", <<>>, <<>>)
UrlError == Url("URLError", <<>>, <<>>)
PlainUrl == Url("https", <<"example", "com">>, <<"a.zip">>)
DriveFileUrl == Url("https", <<"drive", "google", "com">>, <<"file", "d", "ID", "view">>)
DocsUrl == Url("https", <<"docs", "google", "com">>, <<"uc">>)
Urls == {PlainUrl, DriveFileUrl, DocsUrl}
\* what the web answers to a request for a URL: response.url, or no answer
Webs == [Urls -> Urls \cup {NoUrl, UrlError}]
NoId == "None"

\* for _ in range(max_hops + 1): left iterations to go, n requests made
RECURSIVE redirect_loop(_, _, _, _)
redirect_loop(web, url, left, n) ==
    IF left = 0 THEN [exc |-> "RecursionError", val |-> NoUrl, requests |-> n]
    ELSE LET response_url == web[url]
         IN  IF response_url = UrlError
             THEN [exc |-> "URLError", val |-> NoUrl, requests |-> n + 1]
             ELSE IF response_url = url \/ response_url = NoUrl
             THEN [exc |-> "none", val |-> url, requests |-> n + 1]
             ELSE redirect_loop(web, response_url, left - 1, n + 1)

\* _get_redirect_url looping max_hops times
_get_redirect_url_short(web, url, max_hops) == redirect_loop(web, url, max_hops, 0)

_get_redirect_url(web, url, max_hops) == redirect_loop(web, url, max_hops + 1, 0)

\* re.match anchors at the start only: the host begins with drive.google.com
\* or docs.google.com, the path with /file/d/, and the id runs to the next /
_get_google_drive_file_id(url) ==
    IF ~(Len(url.netloc) >= 3 /\ url.netloc[1] \in {"drive", "docs"}
         /\ url.netloc[2] = "google" /\ url.netloc[3] = "com")
    THEN NoId
    ELSE IF ~(Len(url.path) >= 3 /\ url.path[1] = "file" /\ url.path[2] = "d")
    THEN NoId
    ELSE url.path[3]

\* os.path.basename(url)
basename(url) == IF url.path = <<>> THEN "" ELSE url.path[Len(url.path)]

\* the characters of the strings URLs and file names are made of
Code(s) ==
    CASE s = "https" -> <<104, 116, 116, 112, 115>>
      [] s = "http" -> <<104, 116, 116, 112>>
      [] s = "example" -> <<101, 120, 97, 109, 112, 108, 101>>
      [] s = "com" -> <<99, 111, 109>>
      [] s = "drive" -> <<100, 114, 105, 118, 101>>
      [] s = "docs" -> <<100, 111, 99, 115>>
      [] s = "google" -> <<103, 111, 111, 103, 108, 101>>
      [] s = "a.zip" -> <<97, 46, 122, 105, 112>>
      [] s = "file" -> <<102, 105, 108, 101>>
      [] s = "d" -> <<100>>
      [] s = "ID" -> <<73, 68>>
      [] s = "view" -> <<118, 105, 101, 119>>
      [] s = "uc" -> <<117, 99>>
      [] s = "f.bin" -> <<102, 46, 98, 105, 110>>
      [] OTHER -> <<>>

RECURSIVE Join(_, _)
Join(parts, sep) ==
    IF parts = <<>> THEN <<>>
    ELSE IF Len(parts) = 1 THEN Code(parts[1])
    ELSE Code(Head(parts)) \o <<sep>> \o Join(Tail(parts), sep)

\* the URL as the str the program holds: scheme://host/path
UrlStr(url) == Code(url.scheme) \o <<58, 47, 47>> \o Join(url.netloc, 46) \o <<47>>
               \o Join(url.path, 47)

\* os.path.join(root, filename), root being the directory "root"
Joined(filename) == <<114, 111, 111, 116, 47>> \o Code(filename)

\* 'Downloading ' + url + ' to ' + output_file
Downloading(url, filename) ==
    <<68, 111, 119, 110, 108, 111, 97, 100, 105, 110, 103, 32>>
    \o UrlStr(url) \o <<32, 116, 111, 32>> \o Joined(filename)

\* 'Failed download. Trying https -> http instead. Downloading ' + url + ...
FailedDownloading(url, filename) ==
    <<70, 97, 105, 108, 101, 100, 32, 100, 111, 119, 110, 108, 111, 97,
      100, 46, 32, 84, 114, 121, 105, 110, 103, 32, 104, 116, 116, 112,
      115, 32, 45, 62, 32, 104, 116, 116, 112, 32, 105, 110, 115, 116, 101,
      97, 100, 46, 32>>
    \o Downloading(url, filename)

\* print(text): sys.stdout.write(text), then sys.stdout.write("\n")
builtin_print(w, text, fail) ==
    LET w1 == SysWrite(w, "stdout", Str(text), fail)
    IN  IF w1.exc # "none" THEN w1 ELSE SysWrite(w1, "stdout", Str(<<10>>), fail)

\* download_file_from_google_drive(file_id, root, filename); api is what the
\* Drive API answers. "if not filename": None and "" both give the file id.
download_file_from_google_drive(d, file_id, filename, api) ==
    LET fname == IF filename \in {NoName, ""} THEN file_id ELSE filename
    IN  IF api = "Quota exceeded"
        THEN [d EXCEPT !.exc = "RuntimeError",
                       !.fetches = Append(@, [how |-> "gdrive", what |-> file_id,
                                              dest |-> fname, ok |-> FALSE])]
        ELSE [d EXCEPT !.fetches = Append(@, [how |-> "gdrive", what |-> file_id,
                                              dest |-> fname, ok |-> TRUE])]

\* _urlretrieve(url, filename); get is whether the request succeeds
_urlretrieve(d, url, filename, get) ==
    [d EXCEPT !.exc = IF get THEN "none" ELSE "URLError",
              !.fetches = Append(@, [how |-> "urlretrieve", what |-> url,
                                     dest |-> filename, ok |-> get])]

\* download_url(url, root, filename, max_redirect_hops): d0 the module's
\* record, w0 the streams; the result is both after the call. An OSError of
\* the first print is caught by the except clause like one of the retrieval.
download_url(d0, w0, url, filename, max_redirect_hops, api, get1, get2, fail) ==
    LET filename1 == IF filename = NoName THEN basename(url) ELSE filename
        output_file == filename1
        r == _get_redirect_url(d0.web, url, max_redirect_hops)
        d == [d0 EXCEPT !.exc = r.exc, !.fetches = <<>>, !.requests = r.requests,
                        !.val = r.val, !.file_id = NoId]
        file_id == _get_google_drive_file_id(r.val)
        d1 == IF file_id # NoId
              THEN download_file_from_google_drive([d EXCEPT !.file_id = file_id],
                                                   file_id, filename1, api)
              ELSE d
        w1 == builtin_print(w0, Downloading(r.val, output_file), fail)
        d2 == IF w1.exc # "none" THEN [d1 EXCEPT !.exc = w1.exc]
              ELSE _urlretrieve(d1, r.val, output_file, get1)
        http == [r.val EXCEPT !.scheme = "http"]
        w2 == builtin_print([w1 EXCEPT !.exc = "none"],
                            FailedDownloading(http, output_file), fail)
        d3 == IF w2.exc # "none" THEN [d2 EXCEPT !.exc = w2.exc]
              ELSE _urlretrieve(d2, http, output_file, get2)
        res == IF r.exc # "none" THEN [d |-> d, w |-> w0]
               ELSE IF d1.exc # "none" THEN [d |-> d1, w |-> w0]
               ELSE IF d2.exc = "none" THEN [d |-> d2, w |-> w1]
               ELSE IF r.val.scheme = "https" THEN [d |-> d3, w |-> w2]
               ELSE [d |-> d2, w |-> w1]
    IN  [d |-> res.d, w |-> Returned(res.w, res.d.exc, None)]

GetRedirectUrl ==
    \E url \in Urls, max_hops \in 0..MaxHops :
        /\ LET r == _get_redirect_url(dl.web, url, max_hops)
           IN  dl' = [dl EXCEPT !.op = "_get_redirect_url", !.url = url,
                                !.max_hops = max_hops, !.filename = NoName,
                                !.exc = r.exc, !.val = r.val, !.requests = r.requests,
                                !.file_id = NoId, !.fetches = <<>>]
        /\ UNCHANGED <<loggerVars, execVars, notify, loggers, timer>>

DownloadUrl ==
    \E url \in Urls, filename \in {NoName, "f.bin"}, max_hops \in 0..MaxHops,
       api \in {"ok", "Quota exceeded"}, get1 \in BOOLEAN, get2 \in BOOLEAN,
       fail \in Fails :
        /\ Len(out) < MaxOut
        /\ LET r == download_url(dl, World, url, filename, max_hops, api, get1, get2, fail)
           IN  /\ dl' = [r.d EXCEPT !.op = "download_url", !.url = url,
                                    !.max_hops = max_hops, !.filename = filename]
               /\ Commit(r.w, Ret("download_url", r.w, 0, NoName, "a", Str(<<>>)))
        /\ UNCHANGED <<scopes, execVars, notify, loggers, timer>>

\* download_file_from_google_drive(file_id, root, filename) called directly
DownloadFromDrive ==
    \E file_id \in {"ID"}, filename \in {NoName, "", "f.bin"},
       api \in {"ok", "Quota exceeded"} :
        /\ dl' = [download_file_from_google_drive(
                      [dl EXCEPT !.exc = "none", !.fetches = <<>>, !.requests = 0,
                                 !.val = NoUrl, !.file_id = file_id],
                      file_id, filename, api)
                    EXCEPT !.op = "download_file_from_google_drive", !.url = NoUrl,
                           !.max_hops = 0, !.filename = filename]
        /\ UNCHANGED <<loggerVars, execVars, notify, loggers, timer>>

\* the module, and the web as it answers
DownloadOn(web) ==
    [web |-> web, op |-> "import", url |-> NoUrl, max_hops |-> 0, filename |-> NoName,
     exc |-> "none", val |-> NoUrl, requests |-> 0, file_id |-> NoId, fetches |-> <<>>]
DownloadModule == DownloadOn([u \in Urls |-> u])

\* the state of the modules a run does not use
UtilInit ==
    /\ notify = NotifyModule(NoToken)
    /\ loggers = LoggingModule
    /\ timer = TimerObject
    /\ dl = DownloadModule

Init == LoggerInit /\ ExecInit /\ UtilInit

\* a run that leaves the redirecting stream and save_exec_status alone
Quiet == LoggerInit /\ disk = <<>> /\ ExecInit /\ statusFile = <<>>

\* the life cycle of the streams: the singleton and directly constructed,
\* stacked instances
Next == Open \/ CloseRedirect \/ New \/ Close \/ Flush
Spec == Init /\ [][Next]_vars

\* the singleton used through the module's two entry points only
NextSingleton == Open \/ CloseRedirect \/ Printing \/ Flush
SpecSingleton == Init /\ [][NextSingleton]_vars

\* writes to directly constructed instances
NextWrite == New \/ Write \/ Flush
SpecWrite == Init /\ [][NextWrite]_vars

\* the scoped wrapper
NextScoped == Enter \/ Exit \/ Printing \/ Open \/ CloseRedirect
SpecScoped == Init /\ [][NextScoped]_vars

\* the decorator
NextExec == Call
SpecExec == Init /\ [][NextExec]_vars

\* stacked instances closed in either order, and printing through them
InitStacked == Quiet /\ UtilInit
NextStacked == New \/ Close \/ PrintStdout
SpecStacked == InitStacked /\ [][NextStacked]_vars

\* a Timer driven by its caller while time passes
InitTimer == Quiet /\ UtilInit
NextTimer ==
    TimerReset \/ TimerStart \/ TimerStop \/ TimerPause \/ TimerResume \/ TimerStep \/ Tick
SpecTimer == InitTimer /\ [][NextTimer]_vars

\* downloads from a web of three URLs that redirect to each other in every way
InitDownload ==
    /\ Quiet
    /\ notify = NotifyModule(NoToken) /\ loggers = LoggingModule /\ timer = TimerObject
    /\ dl \in {DownloadOn(web) : web \in [Urls -> Urls]}
NextDownload == DownloadUrl \/ DownloadFromDrive
SpecDownload == InitDownload /\ [][NextDownload]_vars

\* redirect resolution alone, on a web that may also answer with no URL or
\* not at all
InitRedirect ==
    /\ Quiet
    /\ notify = NotifyModule(NoToken) /\ loggers = LoggingModule /\ timer = TimerObject
    /\ dl \in {DownloadOn(web) : web \in Webs}
NextRedirect == GetRedirectUrl
SpecRedirect == InitRedirect /\ [][NextRedirect]_vars

\* notifications, with and without LINE_NOTIFY_TOKEN in the environment
InitNotify ==
    /\ Quiet
    /\ notify \in {NotifyModule(env) : env \in {NoToken, "envtok"}}
    /\ loggers = LoggingModule /\ timer = TimerObject /\ dl = DownloadModule
NextNotify == SendNotify
SpecNotify == InitNotify /\ [][NextNotify]_vars

\* loggers made with get_logger
InitLogging == LoggerInit /\ ExecInit /\ statusFile = <<>> /\ UtilInit
NextLogging == GetLogger
SpecLogging == InitLogging /\ [][NextLogging]_vars

\* ------------------------------------------------------------- claims
HasEv(evs, e) == \E k \in 1..Len(evs) : evs[k].e = e
IsEmpty(text) == Len(text.data) = 0

RECURSIVE Concat(_)
Concat(chunks) ==
    IF chunks = <<>> THEN <<>> ELSE Head(chunks) \o Concat(Tail(chunks))

\* C1: open_redirect_std_stream called while the slot is occupied returns the
\* instance of the slot whatever filename and mode it is given: no file is
\* opened, no instance is constructed or changed (nothing is captured again),
\* and sys.stdout, sys.stderr and the slot stay as they are.
C1_OpenWhileActiveReturnsSame ==
    [][(ret'.op = "open_redirect_std_stream" /\ stream # None) =>
          /\ ret'.exc = "none"
          /\ ret'.val = stream
          /\ ev' = <<>>
          /\ UNCHANGED <<stream, inst, disk, sys_stdout, sys_stderr>>]_vars

\* a second open, with a file name and mode the live instance does not have
C1_Witness ==
    /\ ret.op = "open_redirect_std_stream"
    /\ ret.pre # None
    /\ ret.val = ret.pre
    /\ ret.name = GoodName /\ ret.mode = "w"
    /\ ~inst[ret.val].file.open

\* C2: every exit from the scope of redirect_stds, by the body finishing or
\* by the body raising, runs the process-wide close: the slot is cleared,
\* the instance's file is closed and sys.stdout/sys.stderr are no longer the
\* instance (a close that itself fails with an I/O error is set aside).
C2_ScopeExitAlwaysCloses ==
    (ret.op = "redirect_stds.exit" /\ ret.exc # "OSError") =>
        /\ stream = None
        /\ ret.pre # None =>
              /\ inst[ret.pre].file = NoFile
              /\ sys_stdout # Ref(ret.pre)
              /\ sys_stderr # Ref(ret.pre)

\* C3: after open_redirect_std_stream, writes and flushes, and a
\* close_redirect_std_stream that returns, sys.stdout and sys.stderr are the
\* targets the instance captured when it was opened, its file is closed and
\* the reference cleared, and the slot is empty; an open that finds the slot
\* empty puts a newly constructed instance, never closed, in the slot.
C3_CloseRestoresAndClears ==
    /\ (ret.op = "close_redirect_std_stream" /\ ret.pre # None /\ ret.exc = "none") =>
          /\ sys_stdout = inst[ret.pre].stdout
          /\ sys_stderr = inst[ret.pre].stderr
          /\ inst[ret.pre].file = NoFile
          /\ ret.name # NoName => HasEv(ev, "file.close")
          /\ stream = None
    /\ (ret.op = "open_redirect_std_stream" /\ ret.pre = None /\ ret.exc = "none") =>
          /\ stream = ret.val
          /\ ret.val = Len(inst)
          /\ ret.val \notin closed
          /\ inst[ret.val].file.open <=> ret.name # NoName

\* the second session, with a file and a write, closed
C3_Witness ==
    /\ ret.op = "close_redirect_std_stream"
    /\ ret.exc = "none"
    /\ ret.pre > 1
    /\ ret.name = GoodName
    /\ sess.chunks # <<>>
    /\ sys_stdout = OrigStdout

\* C4: under open_redirect_std_stream / close_redirect_std_stream alone, at
\* most one instance is live (installed or holding an open file), and it is
\* the one in the slot; the slot is occupied exactly when sys.stdout and
\* sys.stderr both are its instance, and empty exactly when both are the
\* original streams.
Live ==
    {i \in 1..Len(inst) : sys_stdout = Ref(i) \/ sys_stderr = Ref(i) \/ inst[i].file.open}

C4_SingletonInvariant ==
    /\ Cardinality(Live) <= 1
    /\ Live \subseteq {stream}
    /\ stream # None <=> (sys_stdout = Ref(stream) /\ sys_stderr = Ref(stream))
    /\ stream = None <=> (sys_stdout = OrigStdout /\ sys_stderr = OrigStderr)

\* the second instance installed after the first was closed
C4_Witness ==
    /\ stream > 1
    /\ sys_stdout = Ref(stream)
    /\ closed # {}

\* C5 as stated: close_redirect_std_stream on an empty slot raises nothing
\* and changes neither the streams nor the slot, and a close of an instance
\* whose close has returned before closes no file and changes neither
\* sys.stdout nor sys.stderr.
C5_SecondCloseChangesNothing ==
    [][/\ (ret'.op = "close_redirect_std_stream" /\ stream = None) =>
             (ret'.exc = "none" /\ UNCHANGED <<sys_stdout, sys_stderr, stream>>)
       /\ (ret'.op = "close" /\ ret'.again) =>
             (~HasEv(ev', "file.close") /\ UNCHANGED <<sys_stdout, sys_stderr>>)]_vars

\* C5 as amended: close_redirect_std_stream on an empty slot raises nothing
\* and changes neither the streams nor the slot; a close of an instance whose
\* close has returned before closes no file, leaves its file reference
\* cleared, and changes sys.stdout (sys.stderr) only when the instance is the
\* installed stream again, which it never is directly after its own close.
C5_SecondCloseAmended ==
    [][/\ (ret'.op = "close_redirect_std_stream" /\ stream = None) =>
             (ret'.exc = "none" /\ UNCHANGED <<sys_stdout, sys_stderr, stream>>)
       /\ (ret'.op = "close" /\ ret'.again) =>
             /\ ~HasEv(ev', "file.close")
             /\ inst'[ret'.self].file = NoFile
             /\ sys_stdout # Ref(ret'.self) => sys_stdout' = sys_stdout
             /\ sys_stderr # Ref(ret'.self) => sys_stderr' = sys_stderr
             /\ (ret.op = "close" /\ ret.self = ret'.self /\ ret.exc = "none") =>
                   UNCHANGED <<sys_stdout, sys_stderr>>]_vars

\* a second close of an instance that was constructed with a file
C5_Witness ==
    /\ ret.op = "close"
    /\ ret.again
    /\ ret.exc = "none"
    /\ inst[ret.self].file = NoFile
    /\ HasEv(ev, "stdout.flush")

\* C6: a close that returns assigns sys.stdout (sys.stderr) only if it is the
\* closing instance, and then the target the instance captured; if another
\* object is installed the stream is left as it is; in both cases the
\* instance's file, if open, is closed and its reference cleared.
C6_CloseRestoresOnlyItself ==
    [][(ret'.op = "close" /\ ret'.exc = "none") =>
          /\ sys_stdout' = IF sys_stdout = Ref(ret'.self)
                           THEN inst[ret'.self].stdout ELSE sys_stdout
          /\ sys_stderr' = IF sys_stderr = Ref(ret'.self)
                           THEN inst[ret'.self].stderr ELSE sys_stderr
          /\ inst'[ret'.self].file = NoFile
          /\ inst[ret'.self].file.open => HasEv(ev', "file.close")]_vars

\* an instance with a file closed while a later instance is installed
C6_Witness ==
    /\ ret.op = "close"
    /\ ret.exc = "none"
    /\ ~ret.again
    /\ HasEv(ev, "file.close")
    /\ sys_stdout.k = "inst" /\ sys_stdout.id > ret.self
    /\ sys_stderr = sys_stdout

\* C7: a write of zero-length input, "" or b"", writes nothing to the file,
\* forwards nothing to the captured stdout and flushes nothing, whatever
\* should_flush is.
C7_EmptyWriteIsNoOp ==
    [][(ret'.op = "write" /\ IsEmpty(ret'.text)) =>
          /\ ret'.exc = "none"
          /\ ev' = <<>>
          /\ UNCHANGED <<disk, inst, out, sys_stdout, sys_stderr>>]_vars

\* b"" written to a flushing instance whose file holds unflushed text
C7_Witness ==
    /\ ret.op = "write"
    /\ ret.text = Bytes(<<>>)
    /\ inst[ret.self].should_flush
    /\ inst[ret.self].file.open
    /\ inst[ret.self].file.buf # <<>>

\* C8: when a session opened with a file in mode "w" has been closed, the
\* file holds the concatenation, in call order, of the chunks written in the
\* session, and the original stdout received exactly those chunks in that
\* order.
C8_FileIsConcatenationOfWrites ==
    (/\ ret.op = "close_redirect_std_stream" /\ ret.exc = "none"
     /\ ret.pre # None /\ ret.name = GoodName /\ ret.mode = "w") =>
        /\ disk = Concat(sess.chunks)
        /\ SubSeq(out, sess.out0 + 1, Len(out)) = sess.chunks

\* two different chunks written in a "w" session, and the session closed
C8_Witness ==
    /\ ret.op = "close_redirect_std_stream" /\ ret.exc = "none"
    /\ ret.pre # None /\ ret.name = GoodName /\ ret.mode = "w"
    /\ Len(sess.chunks) = 2
    /\ sess.chunks[1] # sess.chunks[2]

\* C9: when open_redirect_std_stream is to create the instance and the file
\* cannot be opened, the OSError of the one open attempt reaches the caller
\* and nothing has changed: the slot is empty, sys.stdout and sys.stderr are
\* what they were, no instance exists that did not before.
C9_FailedOpenChangesNothing ==
    [][(ret'.op = "open_redirect_std_stream" /\ stream = None /\ ret'.name = BadName) =>
          /\ ret'.exc = "OSError"
          /\ ev' = <<[e |-> "open", i |-> 0]>>
          /\ UNCHANGED <<stream, sys_stdout, sys_stderr, inst, disk, out, closed>>]_vars

\* a failed open after an earlier session
C9_Witness ==
    /\ ret.op = "open_redirect_std_stream"
    /\ ret.exc = "OSError"
    /\ stream = None
    /\ Len(inst) > 0

\* C10: the wrapper of save_exec_status passes the outcome of the function
\* through and records it once: the function's value returned after one
\* FINISHED record was written, or the function's exception raised again
\* after one CRASHED record was written.
RecordedOnce(status) ==
    /\ Len(statusFile) = (IF execRet.mode = "w" THEN 1 ELSE Len(execRet.pre) + 1)
    /\ statusFile[Len(statusFile)].status = status
    /\ execRet.mode = "a" => SubSeq(statusFile, 1, Len(execRet.pre)) = execRet.pre

C10_OutcomePassedThroughAndRecorded ==
    execRet.op = "inner" =>
        IF execRet.f.raises
        THEN execRet.exc = execRet.f.x /\ RecordedOnce("CRASHED")
        ELSE execRet.exc = "none" /\ execRet.val = execRet.f.v /\ RecordedOnce("FINISHED")

\* C11: a send_notify whose post the network answers makes exactly one post
\* and returns its response without raising: without an image_file the post
\* carries no file, with one it carries the opened file.
C11_PostsOnceAndReturnsResponse ==
    (notify.ret.op = "send_notify" /\ notify.ret.net # "ConnectionError"
     /\ notify.ret.image_file # MissingImage)
    => /\ notify.m.exc = "none"
       /\ notify.ret.posted = 1
       /\ notify.m.val = [k |-> "Response", status |-> notify.ret.net, n |-> notify.m.posts]
       /\ notify.m.last.message = notify.ret.message
       /\ notify.m.last.imageFile = notify.ret.image_file

\* C12: get_logger is idempotent per name. Whatever the later calls pass,
\* every call that returns gives the logger of that name, and a logger keeps
\* exactly the handlers its first call left on it: when that call returned,
\* one stream handler, then one file handler if a filename was given, then
\* the auxiliary handlers, each once.
C12_GetLoggerIdempotent ==
    /\ (loggers.ret.op = "get_logger" /\ loggers.L.exc = "none")
       => loggers.L.val = loggers.ret.name
    /\ \A n \in LoggerNames :
         LET f == loggers.first[n]
             hs == loggers.L.reg[n].handlers
             nfile == IF f.filename = NoName THEN 0 ELSE 1
         IN  f.called =>
               /\ hs = f.handlers
               /\ hs # <<>> /\ hs[1].k = "stream"
               /\ f.exc = "none" =>
                    /\ Len(hs) = 1 + nfile + Cardinality(Range(f.aux))
                    /\ Cardinality(Range(hs)) = Len(hs)
                    /\ nfile = 1 => (hs[2].k = "file" /\ hs[2].filename = f.filename
                                     /\ hs[2].mode = f.mode)
                    /\ \A i \in 1..Len(hs) : i > 1 + nfile => hs[i] \in Range(f.aux)
                    /\ Range(f.aux) \subseteq Range(hs)
C12_Witness ==
    /\ loggers.ret.op = "get_logger" /\ loggers.ret.again /\ loggers.L.exc = "none"
    /\ loggers.first[loggers.ret.name].filename = GoodName
    /\ loggers.ret.filename = NoName
    /\ loggers.ret.aux # loggers.first[loggers.ret.name].aux
    /\ Len(loggers.L.reg[loggers.ret.name].handlers) = 4

\* the positions in the last call's events of event e on object i
Idx(e, i) == {k \in 1..Len(ev) : ev[k] = [e |-> e, i |-> i]}
IsFlush(k) == ev[k].e \in {"file.flush", "stdout.flush"}

\* C13: a non-empty write on instance i first appends to i's file (if open),
\* then forwards, so that the original stdout receives the text after every
\* file write; with should_flush, i's file and the original stdout are
\* flushed after the forward, the stdout flush being the last thing write
\* does; without should_flush, write flushes nothing of its own.
C13_WriteOrder ==
    LET i == ret.self
        hasfile == inst[i].file.open
    IN  (ret.op = "write" /\ ret.exc # "UnicodeDecodeError" /\ ~IsEmpty(ret.text))
        => /\ hasfile <=> Idx("file.write", i) = {1}
           /\ \E k \in 1..Len(ev) :
                /\ Idx("stdout.write", 0) = {k}
                /\ \A j \in 1..(k - 1) : ev[j].e = "file.write"
                /\ (inst[i].should_flush /\ ret.exc = "none")
                   => /\ ev[Len(ev)] = [e |-> "stdout.flush", i |-> 0]
                      /\ hasfile => \E f \in Idx("file.flush", i) : k < f /\ f < Len(ev)
                /\ ~inst[i].should_flush
                   => /\ Idx("file.flush", i) = {}
                      /\ inst[i].stdout.k # "inst" => \A j \in 1..Len(ev) : ~IsFlush(j)
C13_Witness ==
    /\ ret.op = "write" /\ ret.exc = "none" /\ ret.self \in 1..Len(inst)
    /\ inst[ret.self].should_flush /\ inst[ret.self].file.open
    /\ ev = <<[e |-> "file.write", i |-> ret.self], [e |-> "stdout.write", i |-> 0],
              [e |-> "file.flush", i |-> ret.self], [e |-> "stdout.flush", i |-> 0]>>

\* C14: when the flush that begins close fails, close_redirect_std_stream
\* raises the error and nothing of the close has happened: the slot holds
\* the same instance, sys.stdout and sys.stderr are that instance, its file
\* (if it has one) is open and was not closed; and an
\* open_redirect_std_stream that follows returns that instance and
\* constructs nothing.
C14_FailedFlushAbandonsClose ==
    [][/\ (ret'.op = "close_redirect_std_stream" /\ ret'.exc = "OSError")
          => /\ stream # None /\ stream' = stream
             /\ sys_stdout' = Ref(stream) /\ sys_stderr' = Ref(stream)
             /\ inst'[stream].file.open = inst[stream].file.open
             /\ ret'.name # NoName => inst'[stream].file.open
             /\ ~HasEv(ev', "file.close")
             /\ closed' = closed
       /\ (ret.op = "close_redirect_std_stream" /\ ret.exc = "OSError"
           /\ ret'.op = "open_redirect_std_stream")
          => /\ ret'.exc = "none" /\ ret'.val = ret.pre /\ ret'.val = stream'
             /\ inst' = inst]_vars
C14_Witness ==
    /\ ret.op = "close_redirect_std_stream" /\ ret.exc = "OSError"
    /\ stream # None /\ stream = ret.pre
    /\ inst[stream].file.open
    /\ sys_stdout = Ref(stream) /\ sys_stderr = Ref(stream)

\* B was constructed while A, which captured the original streams, was installed
Stacked(A, B) ==
    /\ inst[A].stdout = OrigStdout /\ inst[A].stderr = OrigStderr
    /\ inst[B].stdout = Ref(A) /\ inst[B].stderr = Ref(A)

\* C15: for B stacked on A, closing A once B is closed puts the original
\* streams back; closing B after A was closed while B was installed leaves
\* sys.stdout and sys.stderr on the closed A, not on the originals; and text
\* printed to a closed A that is still installed reaches the original stdout
\* and no file.
C15_CloseOrder ==
    [][\A A \in 1..Len(inst), B \in 1..Len(inst) :
         /\ (ret'.op = "close" /\ ret'.self = A /\ ret'.exc = "none" /\ Stacked(A, B)
             /\ B \in closed /\ sys_stdout = Ref(A) /\ sys_stderr = Ref(A))
            => (sys_stdout' = OrigStdout /\ sys_stderr' = OrigStderr)
         /\ (ret'.op = "close" /\ ret'.self = B /\ ret'.exc = "none" /\ Stacked(A, B)
             /\ A \in closed /\ sys_stdout = Ref(B) /\ sys_stderr = Ref(B))
            => (sys_stdout' = Ref(A) /\ sys_stderr' = Ref(A) /\ A \in closed')
         /\ (ret'.op = "print" /\ ret'.name = "stdout" /\ sys_stdout = Ref(A)
             /\ A \in closed /\ inst[A].stdout = OrigStdout
             /\ ret'.exc # "UnicodeDecodeError" /\ ~IsEmpty(ret'.text))
            => /\ out' = Append(out, IF ret'.text.bytes THEN decode(ret'.text.data).s
                                     ELSE ret'.text.data)
               /\ ~HasEv(ev', "file.write")
               /\ disk' = disk]_vars
C15_Witness ==
    /\ Len(inst) >= 2 /\ Stacked(1, 2)
    /\ ret.op = "close" /\ ret.self = 2 /\ ret.exc = "none" /\ ~ret.again
    /\ closed = {1, 2}
    /\ sys_stdout = Ref(1) /\ sys_stderr = Ref(1)

\* C16: a redirect_stds entered while the slot is occupied reuses the
\* instance of the slot, whatever filename and mode it is given, and opens
\* nothing; and when a scope nested in another one is left (a close that
\* fails with an I/O error set aside), the shared instance is closed and the
\* slot cleared, so the enclosing scope goes on without redirection.
C16_NestedScopeSharesAndCloses ==
    /\ (ret.op = "redirect_stds.enter" /\ ret.pre # None)
       => (ret.exc = "none" /\ stream = ret.pre /\ ev = <<>>)
    /\ (ret.op = "redirect_stds.exit" /\ ret.exc # "OSError" /\ ret.pre # None
        /\ scopes >= 1)
       => /\ stream = None
          /\ inst[ret.pre].file = NoFile
          /\ sys_stdout # Ref(ret.pre)
          /\ sys_stderr # Ref(ret.pre)

\* C17: after any calls of start, pause, resume and stop since the last
\* reset, Timer.total is the time during which the timer was running, each
\* interval from a start or resume to the next pause or stop counted once;
\* so a stop that follows a pause adds nothing.
C17_TotalIsRunningTime ==
    timer.t._total = timer.g.ran

\* the redirect chain of url: the redirects followed until a URL answers
\* with itself or with no URL (final), a request fails (error), or a URL
\* comes up again (loop: the chain has no end)
RECURSIVE Walk(_, _, _, _)
Walk(web, url, seen, hops) ==
    LET r == web[url]
    IN  IF r = UrlError THEN [end |-> "error", hops |-> hops, url |-> url]
        ELSE IF r = url \/ r = NoUrl THEN [end |-> "final", hops |-> hops, url |-> url]
        ELSE IF r \in seen THEN [end |-> "loop", hops |-> hops, url |-> url]
        ELSE Walk(web, r, seen \cup {r}, hops + 1)

\* C18: _get_redirect_url makes at most max_hops + 1 requests; when the
\* chain ends after at most max_hops redirects it returns the final URL, and
\* it raises RecursionError exactly when the chain has more than max_hops
\* redirects.
C18_RedirectBounded ==
    LET c == Walk(dl.web, dl.url, {dl.url}, 0)
        long == c.end = "loop" \/ c.hops > dl.max_hops
    IN  dl.op = "_get_redirect_url"
        => /\ dl.requests <= dl.max_hops + 1
           /\ (c.end = "final" /\ c.hops <= dl.max_hops)
              => (dl.exc = "none" /\ dl.val = c.url /\ dl.requests = c.hops + 1)
           /\ dl.exc = "RecursionError" <=> long
           /\ long => dl.requests = dl.max_hops + 1
C18_Witness ==
    /\ dl.op = "_get_redirect_url" /\ dl.exc = "none"
    /\ dl.max_hops >= 1 /\ dl.requests = dl.max_hops + 1
    /\ dl.val # dl.url

\* C19: a download_url whose resolved URL is a Google Drive file link
\* fetches through download_file_from_google_drive only, and never through
\* the plain retriever; for any other resolved URL it fetches through the
\* plain retriever only.
C19_DriveOrPlainNotBoth ==
    LET by(how) == {k \in 1..Len(dl.fetches) : dl.fetches[k].how = how}
    IN  (dl.op = "download_url" /\ dl.val # NoUrl)
        => /\ dl.file_id # NoId => (by("gdrive") # {} /\ by("urlretrieve") = {})
           /\ dl.file_id = NoId => (by("gdrive") = {} /\ by("urlretrieve") # {})
====
